---- MODULE Spec2Model ----
(***************************************************************************)
(* PencilSketch (src/image.py): grayscale -> invert -> Gaussian blur ->     *)
(* colour dodge -> optional sharpen, on numpy buffers.                      *)
(*                                                                         *)
(* numpy arrays are objects on a heap: `heap` is the sequence of the       *)
(* arrays that exist, an array's id is its index, a name of the code       *)
(* (frame, grayscale, blur_img, ...) holds an id.  An expression that      *)
(* builds an array appends to the heap; an indexed assignment              *)
(* (result[mask] = 255) rewrites the array it names.                        *)
(***************************************************************************)
EXTENDS Integers, Sequences, FiniteSets, TLC

VARIABLES build, self, heap, frame, locals, ret, writes, status, op

vars == <<build, self, heap, frame, locals, ret, writes, status, op>>

----------------------------------------------------------------------------
(* Bounds of the model.                                                    *)

MaxH == 2
MaxW == 2
MaxSharpen == 10

----------------------------------------------------------------------------
(* float64 values.  A finite value is the rational n/d, with e = -1 when   *)
(* the float64 result lies one rounding error below n/d.  Division by zero *)
(* gives inf, 0/0 gives nan (IEEE 754, numpy only warns).                  *)

Fin(n, d, e) == [k |-> "fin", n |-> n, d |-> d, e |-> e]
Inf == [k |-> "inf", n |-> 0, d |-> 1, e |-> 0]
NaN == [k |-> "nan", n |-> 0, d |-> 1, e |-> 0]

\* x / y in float64 for integers x >= 0, y >= 0 below 2^53: the quotient is
\* correctly rounded, and a quotient that is not an integer is farther than
\* a rounding error from the next integer (y <= 255).
TrueDiv(x, y) ==
    IF y = 0 THEN (IF x = 0 THEN NaN ELSE Inf) ELSE Fin(x, y, 0)

\* v > c for an integer c: every comparison with nan is false.
Greater(v, c) ==
    CASE v.k = "nan" -> FALSE
      [] v.k = "inf" -> TRUE
      [] OTHER -> v.n > c * v.d

\* Truncation of a finite non-negative value towards zero.
Trunc(v) ==
    IF v.n % v.d = 0 /\ v.e < 0 THEN (v.n \div v.d) - 1 ELSE v.n \div v.d

\* astype('uint8') of one float64 sample.  The cast of nan or inf to an
\* integer type is undefined in C: the build decides the sample (b.invalidCast).
AsInt8(v, b) ==
    IF v.k = "fin"
    THEN IF Trunc(v) % 256 > 127 THEN (Trunc(v) % 256) - 256 ELSE Trunc(v) % 256
    ELSE b.invalidCast

AsUint8(v, b) ==
    IF v.k = "fin" THEN Trunc(v) % 256 ELSE b.invalidCast

----------------------------------------------------------------------------
(* Arrays.  A 3-dimensional array a[i][j][k] of shape (height, width,      *)
(* channels), a 2-dimensional one a[i][j]; dtype is "uint8" or "float64".  *)

Buf(dtype, a) == [dtype |-> dtype, a |-> a]

Height(b) == Len(b.a)
Width(b) == Len(b.a[1])
Channels(b) == Len(b.a[1][1])
Shape(b) == <<Height(b), Width(b), Channels(b)>>

\* The function f with domain 1..n as a sequence, its elements evaluated.
Array(f) == f \o <<>>

\* F(e), with e evaluated once before F is.
Let1(e, F(_)) == CHOOSE r \in {F(x) : x \in {e}} : TRUE

\* The array of shape (h, w, c), or (h, w), with the samples F gives.
Array3(h, w, c, F(_, _, _)) ==
    Array([i \in 1..h |-> Array([j \in 1..w |-> Array([x \in 1..c |->
        F(i, j, x)])])])

Array2(h, w, F(_, _)) ==
    Array([i \in 1..h |-> Array([j \in 1..w |-> F(i, j)])])

Like3(a, F(_, _, _)) == Array3(Len(a), Len(a[1]), Len(a[1][1]), F)

Map3(F(_), a0) == Let1(a0, LAMBDA a : Like3(a, LAMBDA i, j, c : F(a[i][j][c])))

Map2(F(_), a0) ==
    Let1(a0, LAMBDA a : Array2(Len(a), Len(a[1]), LAMBDA i, j : F(a[i][j])))

Zip3(F(_, _), a0, b0) ==
    Let1(<<a0, b0>>, LAMBDA ab :
        Like3(ab[1], LAMBDA i, j, c : F(ab[1][i][j][c], ab[2][i][j][c])))

Uniform(h, w, c, v) == Array3(h, w, c, LAMBDA i, j, x : v)

\* The outcome of a stage: the heap after it, the id it returns, the indexed
\* assignments it made, and the error it raised ("" when it returned).
Outcome(h, r, ws, err) == [heap |-> h, ret |-> r, writes |-> ws, err |-> err]

\* One indexed assignment: the array written, the arrays the stage received,
\* and the size of the heap when the stage began.
Write(stage, target, received, base) ==
    [stage |-> stage, target |-> target, received |-> received, base |-> base]

----------------------------------------------------------------------------
(* PencilSketch.dodge, lines 29-41.                                        *)

\* line 38, one sample: back * 255.0 / (255.0 - front)
DodgeQuotBiased(back, front) == TrueDiv(back * 255, 256 - front)

DodgeQuot(back, front) == TrueDiv(back * 255, 255 - front)

\* a[mask] = c
MaskAssign(a0, mask0, c) ==
    Let1(<<a0, mask0>>, LAMBDA am :
        Like3(am[1], LAMBDA i, j, x :
            IF am[2][i][j][x] THEN c ELSE am[1][i][j][x]))

GreaterThan255(v) == Greater(v, 255)
Equals255(v) == v = 255

\* A variant that saturates and forces white in `back`, the array it received.
dodgeInPlace(h, front, back, b) ==
    LET result == Len(h) + 1
    IN Let1(Append(h, Buf("float64", Zip3(DodgeQuot, h[back].a, h[front].a))),
       LAMBDA h1 :
       Let1([h1 EXCEPT ![back].a =
                MaskAssign(@, Map3(GreaterThan255, h1[result].a), 255)],
       LAMBDA h2 :
       Let1([h2 EXCEPT ![back].a =
                MaskAssign(@, Map3(Equals255, h2[back].a), 255)],
       LAMBDA h3 :
       Outcome(Append(h3, Buf("uint8", Map3(LAMBDA v : AsUint8(v, b), h3[result].a))),
               result + 1,
               {Write("dodge", back, {front, back}, Len(h))}, ""))))

dodge(h, front, back, b) ==
    LET result == Len(h) + 1
    IN \* line 38: result = back * 255.0 / (255.0 - front), a new array
       Let1(Append(h, Buf("float64", Zip3(DodgeQuot, h[back].a, h[front].a))),
       LAMBDA h1 :
       \* line 39: result[result > 255] = 255
       Let1([h1 EXCEPT ![result].a =
                MaskAssign(@, Map3(GreaterThan255, h1[result].a), Fin(255, 1, 0))],
       LAMBDA h2 :
       \* line 40: result[back == 255] = 255
       Let1([h2 EXCEPT ![result].a =
                MaskAssign(@, Map3(Equals255, h2[back].a), Fin(255, 1, 0))],
       LAMBDA h3 :
       \* line 41: return result.astype('uint8'), a new array
       Outcome(Append(h3, Buf("uint8", Map3(LAMBDA v : AsUint8(v, b), h3[result].a))),
               result + 1,
               {Write("dodge", result, {front, back}, Len(h))}, ""))))

----------------------------------------------------------------------------
(* PencilSketch.__init__, lines 8-27.                                      *)

None == [t |-> "none"]
IntVal(v) == [t |-> "int", v |-> v]

\* lines 25-26: np.array([[0, -1, 0], [-1, sharpen_value, -1], [0, -1, 0]])
DefaultKernel(sharpen_value) ==
    Buf("int64",
        <<<<0, -1, 0>>, <<-1, sharpen_value.v, -1>>, <<0, -1, 0>>>>)

PencilSketch(blur_simga, ksize, sharpen_value, kernel) ==
    [t |-> "PencilSketch",
     blur_simga |-> blur_simga,                                  \* line 22
     ksize |-> ksize,                                            \* line 23
     sharpen_value |-> sharpen_value,                            \* line 24
     kernel |-> IF kernel = None /\ sharpen_value # None         \* lines 25-27
                THEN DefaultKernel(sharpen_value)
                ELSE kernel]

----------------------------------------------------------------------------
(* PencilSketch.__call__, lines 65-70: grayscale and inversion.            *)

\* The samples (of the frames of this model) whose float64 dot product with
\* [0.299, 0.587, 0.114] lies below the exact sum: with fused multiply-add
\* 255*0.299 + 255*0.587 + 255*0.114 evaluates to 254.99999999999997.
RoundsBelow(b) == IF b.fma THEN {<<255, 255, 255>>} ELSE {}

\* line 66, one pixel: np.dot(frame[..., :3], [0.299, 0.587, 0.114])
LumaMisweighted(px, b) ==
    Fin(299 * px[1] + 587 * px[2] + 144 * px[3], 1000, 0)

Luma(px, b) ==
    Fin(299 * px[1] + 587 * px[2] + 114 * px[3], 1000,
        IF <<px[1], px[2], px[3]>> \in RoundsBelow(b) THEN -1 ELSE 0)

\* line 68: np.stack((grayscale,) * 3, axis=-1)
StackAxis0(a) == <<a, a, a>>

Stack3(a0) ==
    Let1(a0, LAMBDA a : Array3(Len(a), Len(a[1]), 3, LAMBDA i, j, c : a[i][j]))

Grayscale(h, src, b) ==
    \* line 66: the dot product, a new float64 array of shape (h, w)
    Let1(Append(h, Buf("float64", Map2(LAMBDA px : Luma(px, b), h[src].a))),
    LAMBDA h1 :
    \* lines 65-67: np.array(..., dtype=np.uint8), a new array
    Let1(Append(h1, Buf("uint8", Map2(LAMBDA v : AsUint8(v, b), h1[Len(h1)].a))),
    LAMBDA h2 :
    \* line 68, a new array
    Outcome(Append(h2, Buf("uint8", Stack3(h2[Len(h2)].a))), Len(h2) + 1, {}, "")))

\* line 70: 255 - grayscale, a new array
Complement(v) == 255 - v

Invert(h, src) ==
    Outcome(Append(h, Buf("uint8", Map3(Complement, h[src].a))), Len(h) + 1, {}, "")

----------------------------------------------------------------------------
(* cv2.GaussianBlur and cv2.filter2D as lines 72-74 and 53 call them:      *)
(* 8-bit samples, the default border (BORDER_REFLECT_101), a new output    *)
(* array.                                                                  *)

\* cv::borderInterpolate for BORDER_REFLECT_101, 0-based: the loop
\* p < 0 -> -p, p >= len -> 2 len - 2 - p, in closed form.
BorderInterpolate(p, len) ==
    IF len = 1 THEN 0
    ELSE IF p % (2 * (len - 1)) < len
         THEN p % (2 * (len - 1))
         ELSE 2 * (len - 1) - (p % (2 * (len - 1)))

SumUpTo(s, n) ==
    LET acc[m \in 0..n] == IF m = 0 THEN 0 ELSE s[m] + acc[m - 1]
    IN acc[n]

\* The Gaussian kernel in 8-bit fixed point (coefficients sum to 256), for
\* the sizes and sigmas of this model: [0.25, 0.5, 0.25] for size 3 without
\* sigma, exp(-x^2 / (2 sigma^2)) normalised otherwise.
GaussianKernel(n, sigma) ==
    CASE n = 1 -> <<256>>
      [] n = 3 /\ sigma <= 0 -> <<64, 128, 64>>
      [] n = 3 /\ sigma = 5 -> <<85, 86, 85>>
      [] n = 31 /\ sigma = 5 ->
            <<0, 1, 0, 1, 2, 3, 4, 6, 7, 10, 13, 15, 17, 19, 20, 20,
              20, 19, 17, 15, 13, 10, 7, 6, 4, 3, 2, 1, 0, 1, 0>>

\* createGaussianKernels: a size <= 0 is derived from sigma > 0 as
\* cvRound(sigma * 3 * 2 + 1) | 1; the size must then be positive and odd.
AnyKernelSize(k, sigma) == IF k <= 0 THEN 1 ELSE k

KernelSize(k, sigma) == IF k <= 0 /\ sigma > 0 THEN 6 * sigma + 1 ELSE k

ValidKernelSize(k) == k > 0 /\ k % 2 = 1

\* The separable filter: a row pass and a column pass in fixed point, the
\* result rounded to 8 bits.  x = <<src, kernel, kernel length, extent>>.
RowPass(a0, kx0) ==
    Let1(<<a0, kx0, Len(kx0), Len(a0[1])>>, LAMBDA x :
        Like3(x[1], LAMBDA i, j, c :
            SumUpTo([t \in 1..x[3] |->
                IF x[2][t] = 0 THEN 0
                ELSE x[2][t] *
                     x[1][i][BorderInterpolate(j + t - 2 - (x[3] \div 2), x[4]) + 1][c]],
              x[3])))

ColumnPass(a0, ky0) ==
    Let1(<<a0, ky0, Len(ky0), Len(a0)>>, LAMBDA x :
        Like3(x[1], LAMBDA i, j, c :
            SumUpTo([t \in 1..x[3] |->
                IF x[2][t] = 0 THEN 0
                ELSE x[2][t] *
                     x[1][BorderInterpolate(i + t - 2 - (x[3] \div 2), x[4]) + 1][j][c]],
              x[3])))

FixedRound(v) == (v + 32768) \div 65536

GaussianBlur(h, src, ksize, sigmaX) ==
    Let1(<<h[src].a,
           \* a dimension of one sample is not filtered
           IF Len(h[src].a[1]) = 1 THEN 1 ELSE ksize[1],
           IF Len(h[src].a) = 1 THEN 1 ELSE ksize[2]>>,
    LAMBDA x :
    Let1(<<KernelSize(x[2], sigmaX), KernelSize(x[3], sigmaX)>>, LAMBDA ks :
    IF x[2] = 1 /\ x[3] = 1
    THEN Outcome(Append(h, Buf("uint8", x[1])), Len(h) + 1, {}, "")
    ELSE IF ~(ValidKernelSize(ks[1]) /\ ValidKernelSize(ks[2]))
    THEN Outcome(h, 0, {}, "cv2.error")
    ELSE Outcome(
           Append(h, Buf("uint8",
               Map3(FixedRound,
                    ColumnPass(RowPass(x[1], GaussianKernel(ks[1], sigmaX)),
                               GaussianKernel(ks[2], sigmaX))))),
           Len(h) + 1, {}, "")))

\* saturate_cast<uchar>
Wrap8(v) == v % 256

Saturate8(v) == IF v < 0 THEN 0 ELSE IF v > 255 THEN 255 ELSE v

\* filter2D(src, ddepth=-1, kernel): correlation with the kernel anchored at
\* its centre, each sum saturated to 8 bits.  x = <<src, kernel, kernel rows,
\* kernel columns, height, width>>.
Filter2D(a0, k0) ==
    Let1(<<a0, k0, Len(k0), Len(k0[1]), Len(a0), Len(a0[1])>>, LAMBDA x :
        Like3(x[1], LAMBDA i, j, c :
            Saturate8(SumUpTo([t \in 1..(x[3] * x[4]) |->
                x[2][((t - 1) \div x[4]) + 1][((t - 1) % x[4]) + 1] *
                x[1][BorderInterpolate(i + ((t - 1) \div x[4]) - 1 - (x[3] \div 2),
                                       x[5]) + 1]
                    [BorderInterpolate(j + ((t - 1) % x[4]) - 1 - (x[4] \div 2),
                                       x[6]) + 1][c]],
              x[3] * x[4]))))

----------------------------------------------------------------------------
(* PencilSketch.sharpen, lines 43-55.                                      *)

\* line 51: self.sharpen_value is not None and isinstance(self.sharpen_value, int)
SharpenApplies(s) == s.sharpen_value # None /\ s.sharpen_value.t = "int"

sharpenInverted(h, image, s) ==
    Outcome(Append(h, Buf("uint8", Map3(Complement, h[image].a))), Len(h) + 1, {}, "")

sharpen(h, image, s) ==
    IF SharpenApplies(s)
    THEN \* line 52: inverted = 255 - image, a new array
         Let1(Append(h, Buf("uint8", Map3(Complement, h[image].a))),
         LAMBDA h1 :
         \* line 53: cv2.filter2D(src=inverted, ddepth=-1, kernel=self.kernel)
         Let1(Append(h1, Buf("uint8", Filter2D(h1[Len(h1)].a, s.kernel.a))),
         LAMBDA h2 :
         \* line 53: 255 - ..., a new array
         Outcome(Append(h2, Buf("uint8", Map3(Complement, h2[Len(h2)].a))),
                 Len(h2) + 1, {}, "")))
    ELSE Outcome(h, image, {}, "")                                \* line 55

----------------------------------------------------------------------------
(* PencilSketch.__call__, lines 57-80.                                     *)

\* a name that is not bound to an array
Unbound == 0

Sketch(h, src, s, b) ==
    Let1(Grayscale(h, src, b), LAMBDA g :                         \* lines 65-68
    Let1(Invert(g.heap, g.ret), LAMBDA i :                        \* line 70
    Let1(GaussianBlur(i.heap, i.ret, s.ksize, s.blur_simga),      \* lines 72-74
    LAMBDA bl :
    IF bl.err # ""
    THEN [heap |-> bl.heap, ret |-> Unbound, writes |-> {}, err |-> bl.err,
          locals |-> [grayscale |-> g.ret, inverted_img |-> i.ret,
                      blur_img |-> Unbound, final_img |-> Unbound,
                      sharpened_image |-> Unbound]]
    ELSE Let1(dodge(bl.heap, bl.ret, g.ret, b), LAMBDA d :        \* line 76
         Let1(sharpen(d.heap, d.ret, s), LAMBDA sh :              \* line 78
         [heap |-> sh.heap, ret |-> sh.ret,                       \* line 80
          writes |-> d.writes \cup sh.writes, err |-> "",
          locals |-> [grayscale |-> g.ret, inverted_img |-> i.ret,
                      blur_img |-> bl.ret, final_img |-> d.ret,
                      sharpened_image |-> sh.ret]])))))

----------------------------------------------------------------------------
(* The inputs of the model.                                                *)

DefaultSigma == 5
MainSharpen == 10

Sigmas == {0, DefaultSigma}
KSizes == {<<0, 0>>, <<3, 3>>}
SharpenArgs == {None, IntVal(MainSharpen)}
CustomKernel == Buf("int64", <<<<-1, -1, -1>>, <<-1, 10, -1>>, <<-1, -1, -1>>>>)
KernelArgs == {None, CustomKernel}

Black == <<0, 0, 0>>
Gray == <<200, 200, 200>>
White == <<255, 255, 255>>
Colour == <<60, 120, 180>>
Palette == {Black, Gray, White, Colour}

\* A frame of one colour whose first pixel may have another colour.
Spot(h, w, bg, fg) ==
    Array2(h, w, LAMBDA i, j : IF i = 1 /\ j = 1 THEN fg ELSE bg)

WithAlpha(a) == Array2(Len(a), Len(a[1]), LAMBDA i, j : Append(a[i][j], 255))

Flat(h, w, bg) == Spot(h, w, bg, bg)

SpotFrames ==
    {Spot(h, w, bg, fg) :
        h \in 1..MaxH, w \in 1..MaxW, bg \in Palette, fg \in Palette}

FlatFrames ==
    {Flat(h, w, bg) : h \in 1..MaxH, w \in 1..MaxW, bg \in Palette}
        \cup {Flat(4, 4, Gray)}

Frames ==
    {Buf("uint8", a) : a \in SpotFrames \cup FlatFrames}
        \cup {Buf("uint8", WithAlpha(a)) : a \in FlatFrames}

----------------------------------------------------------------------------
(* The builds the program can run on.  fma: the dot product of line 66     *)
(* accumulates with fused multiply-add.  invalidCast: the sample a cast of *)
(* nan to uint8 yields (0 with the SSE2 and NEON conversions, 255 where    *)
(* the conversion saturates).                                              *)

Builds == [fma : BOOLEAN, invalidCast : {0, 255}]

NoLocals == [none |-> 0]

----------------------------------------------------------------------------
(* The program: an image is loaded (line 87), a PencilSketch is built      *)
(* (line 93) and called on the frame (line 96).                            *)

Init ==
    /\ build \in Builds
    /\ self = None
    /\ heap = <<>>
    /\ frame = Unbound
    /\ locals = NoLocals
    /\ ret = Unbound
    /\ writes = {}
    /\ status = "ok"
    /\ op = "start"

\* line 87: image = cv2.imread(image_path)
Load ==
    /\ frame = Unbound
    /\ \E f \in Frames : heap' = <<f>>
    /\ frame' = 1
    /\ op' = "imread"
    /\ UNCHANGED <<build, self, locals, ret, writes, status>>

\* line 93: PencilSketch(...)
Construct ==
    /\ self = None
    /\ \E blur_simga \in Sigmas, ksize \in KSizes,
          sharpen_value \in SharpenArgs, kernel \in KernelArgs :
          self' = PencilSketch(blur_simga, ksize, sharpen_value, kernel)
    /\ op' = "__init__"
    /\ UNCHANGED <<build, heap, frame, locals, ret, writes, status>>

\* line 96: pencil_sketch(image).  The arrays of an earlier call are gone;
\* the caller's frame is array 1.
Call ==
    /\ self # None
    /\ frame # Unbound
    /\ \E r \in {Sketch(<<heap[frame]>>, 1, self, build)} :
          /\ heap' = r.heap
          /\ locals' = r.locals
          /\ ret' = r.ret
          /\ writes' = r.writes
          /\ status' = IF r.err = "" THEN "ok" ELSE r.err
    /\ op' = "__call__"
    /\ UNCHANGED <<build, self, frame>>

Next == Load \/ Construct \/ Call

Spec == Init /\ [][Next]_vars

----------------------------------------------------------------------------
(* sharpen called on its own, on a flat image.                              *)

SharpenValues == {None} \cup {IntVal(v) : v \in (-1)..MaxSharpen}

SharpenInit ==
    /\ build = [fma |-> FALSE, invalidCast |-> 0]
    /\ \E sharpen_value \in SharpenValues, kernel \in KernelArgs :
          self = PencilSketch(DefaultSigma, <<0, 0>>, sharpen_value, kernel)
    /\ \E h \in 1..MaxH, w \in 1..MaxW, v \in 0..255 :
          heap = <<Buf("uint8", Uniform(h, w, 3, v))>>
    /\ frame = Unbound
    /\ locals = [image |-> 1]
    /\ ret = Unbound
    /\ writes = {}
    /\ status = "ok"
    /\ op = "start"

SharpenCall ==
    /\ op = "start"
    /\ \E r \in {sharpen(heap, locals.image, self)} :
          /\ heap' = r.heap
          /\ ret' = r.ret
          /\ writes' = r.writes
    /\ op' = "sharpen"
    /\ UNCHANGED <<build, self, frame, locals, status>>

SharpenNext == SharpenCall

SharpenSpec == SharpenInit /\ [][SharpenNext]_vars

----------------------------------------------------------------------------
(* dodge called on its own: front and back are one-sample arrays.          *)

DodgeInit ==
    /\ build \in Builds
    /\ self = PencilSketch(DefaultSigma, <<0, 0>>, None, None)
    /\ \E f \in 0..255, bk \in 0..255 :
          heap = <<Buf("uint8", Uniform(1, 1, 1, f)), Buf("uint8", Uniform(1, 1, 1, bk))>>
    /\ frame = Unbound
    /\ locals = [front |-> 1, back |-> 2]
    /\ ret = Unbound
    /\ writes = {}
    /\ status = "ok"
    /\ op = "start"

DodgeCall ==
    /\ op = "start"
    /\ \E r \in {dodge(heap, locals.front, locals.back, build)} :
          /\ heap' = r.heap
          /\ ret' = r.ret
          /\ writes' = r.writes
    /\ op' = "dodge"
    /\ UNCHANGED <<build, self, frame, locals, status>>

DodgeNext == DodgeCall

DodgeSpec == DodgeInit /\ [][DodgeNext]_vars

\* the sample of a one-sample array
Sample(id) == heap[id].a[1][1][1]

----------------------------------------------------------------------------
(* The properties.                                                         *)

Min(x, y) == IF x < y THEN x ELSE y
Clamp8(v) == Min(255, IF v < 0 THEN 0 ELSE v)

\* every sample of array id is v, and the array has the frame's height and
\* width and c channels
AllSamples(id, h, w, c, v) == heap[id].a = Uniform(h, w, c, v)

\* C1: dodge saturation.  Where the front sample is 255, dodge returns 255,
\* for every back sample in 0..255, back = 0 included.
C1_DodgeSaturation ==
    (op = "dodge" /\ Sample(locals.front) = 255) => Sample(ret) = 255

\* C2: identity at white.  Where the back sample is 255, dodge returns 255,
\* for every front sample in 0..255.
C2_IdentityAtWhite ==
    (op = "dodge" /\ Sample(locals.back) = 255) => Sample(ret) = 255

C2_Witness ==
    /\ op = "dodge"
    /\ Sample(locals.back) = 255
    /\ Sample(locals.front) = 255
    /\ Sample(ret) = 255

\* C3: dodge value.  For front and back in 0..254 dodge returns
\* min(255, floor(back * 255 / (255 - front))), a value in 0..255: the
\* quotient is saturated and truncated, not rounded.
C3_DodgeValue ==
    (op = "dodge" /\ Sample(locals.front) <= 254 /\ Sample(locals.back) <= 254) =>
        /\ Sample(ret) =
              Min(255, (Sample(locals.back) * 255) \div (255 - Sample(locals.front)))
        /\ Sample(ret) \in 0..255
        /\ heap[ret].dtype = "uint8"

\* a quotient with a fractional part above one half, truncated to 1
C3_Witness ==
    /\ op = "dodge"
    /\ Sample(locals.front) = 100
    /\ Sample(locals.back) = 1
    /\ Sample(ret) = 1

\* C4: no-op sharpen.  With neither a sharpen value nor a kernel configured,
\* sharpen returns the array it received, and the output of a call is the
\* dodge blend of the blurred inverted image and the grayscale image.
C4_NoOpSharpen ==
    (op = "__call__" /\ status = "ok"
        /\ self.sharpen_value = None /\ self.kernel = None) =>
        /\ ret = locals.final_img
        /\ locals.sharpened_image = locals.final_img
        /\ Len(heap) = locals.final_img
        /\ heap[ret].a =
              Map3(LAMBDA v : AsUint8(v, build),
                   Zip3(LAMBDA bk, fr :
                            IF bk = 255 \/ Greater(TrueDiv(bk * 255, 255 - fr), 255)
                            THEN Fin(255, 1, 0)
                            ELSE TrueDiv(bk * 255, 255 - fr),
                        heap[locals.grayscale].a, heap[locals.blur_img].a))

C4_Witness ==
    /\ op = "__call__"
    /\ status = "ok"
    /\ self.sharpen_value = None
    /\ self.kernel = None
    /\ Height(heap[frame]) = 2
    /\ ret = locals.final_img
    /\ \E i \in 1..2 : heap[ret].a[i][1][1] \notin {0, 255}

\* C5: sharpen activation.  sharpen applies the kernel (invert, filter,
\* invert) whenever a sharpen value or a kernel is configured, also with a
\* kernel alone; it returns its input only when both are unset.
C5_SharpenActivation ==
    op = "sharpen" =>
        IF self.sharpen_value # None \/ self.kernel # None
        THEN heap[ret].a =
                Map3(Complement,
                     Filter2D(Map3(Complement, heap[locals.image].a), self.kernel.a))
        ELSE ret = locals.image

\* A configuration with blur_simga <= 0 and ksize (0, 0).
InvalidBlur(s) == s # None /\ s.blur_simga <= 0 /\ s.ksize = <<0, 0>>

C7_OutputShape ==
    (op = "__call__" /\ status = "ok") =>
        /\ Channels(heap[frame]) >= 3
        /\ Shape(heap[ret]) = <<Height(heap[frame]), Width(heap[frame]), 3>>
        /\ \A n \in 1..Len(heap) :
              /\ Height(heap[n]) = Height(heap[frame])
              /\ Width(heap[n]) = Width(heap[frame])
        /\ {locals.grayscale, locals.inverted_img, locals.blur_img,
            locals.final_img, locals.sharpened_image} \subseteq 1..Len(heap)

C7_Witness ==
    /\ op = "__call__"
    /\ status = "ok"
    /\ Shape(heap[frame]) = <<1, 2, 4>>
    /\ SharpenApplies(self)
    /\ Shape(heap[ret]) = <<1, 2, 3>>

\* the frame holds R = G = B = 200 in every cell
Gray200(b) ==
    \A i \in 1..Height(b), j \in 1..Width(b), c \in 1..3 : b.a[i][j][c] = 200

\* C8: the constant-gray scenario.  For a frame of R = G = B = 200 with
\* blur_simga 5 and ksize (0, 0): grayscale 200, inverted 55, blurred 55 and
\* dodge 255 everywhere, and the output 255 in all 3 channels, with the
\* sharpen value unset and with sharpen value 10.
C8_ConstantGray ==
    (op = "__call__" /\ Gray200(heap[frame])
        /\ self.blur_simga = 5 /\ self.ksize = <<0, 0>>
        /\ self.sharpen_value \in {None, IntVal(10)}) =>
        LET h == Height(heap[frame])
            w == Width(heap[frame])
        IN /\ status = "ok"
           /\ AllSamples(locals.grayscale, h, w, 3, 200)
           /\ AllSamples(locals.inverted_img, h, w, 3, 55)
           /\ AllSamples(locals.blur_img, h, w, 3, 55)
           /\ AllSamples(locals.final_img, h, w, 3, 255)
           /\ AllSamples(ret, h, w, 3, 255)

C8_Witness ==
    /\ op = "__call__"
    /\ Gray200(heap[frame])
    /\ Shape(heap[frame]) = <<4, 4, 3>>
    /\ self.blur_simga = 5
    /\ self.ksize = <<0, 0>>
    /\ self.sharpen_value = IntVal(10)
    /\ self.kernel = DefaultKernel(IntVal(10))
    /\ AllSamples(ret, 4, 4, 3, 255)
    /\ ret # locals.final_img

\* sharpen ran on a flat image with the kernel derived from an integer
\* sharpen value
FlatSharpened ==
    /\ op = "sharpen"
    /\ self.sharpen_value.t = "int"
    /\ self.kernel = DefaultKernel(self.sharpen_value)

\* the value of the flat image sharpen received
FlatValue == heap[locals.image].a[1][1][1]

\* C9, as stated: sharpen with the derived kernel returns a flat image
\* unchanged, for every value 0..255 and every integer sharpen value.
C9_FlatFieldNoOp ==
    FlatSharpened => heap[ret].a = heap[locals.image].a

\* C9, amended: sharpen with the derived kernel maps the flat image of value
\* v to the flat image of value 255 - clamp((255 - v) * (s - 4), 0, 255): the
\* kernel sums to s - 4.  It equals the input exactly when v = 255, or s = 5,
\* or v = 0 and s >= 5.
C9_FlatFieldScaled ==
    FlatSharpened =>
        LET v == FlatValue
            s == self.sharpen_value.v
            h == Height(heap[locals.image])
            w == Width(heap[locals.image])
        IN /\ heap[locals.image].a = Uniform(h, w, 3, v)
           /\ heap[ret].a = Uniform(h, w, 3, 255 - Clamp8((255 - v) * (s - 4)))
           /\ heap[ret].a = heap[locals.image].a <=>
                 (v = 255 \/ s = 5 \/ (v = 0 /\ s >= 5))

C9_Witness ==
    /\ FlatSharpened
    /\ FlatValue = 200
    /\ self.sharpen_value = IntVal(10)
    /\ Shape(heap[locals.image]) = <<2, 2, 3>>
    /\ heap[ret].a = Uniform(2, 2, 3, 0)

\* C10: no in-place mutation.  A call leaves the frame's samples and the
\* configuration as they were, and every indexed assignment of a stage goes
\* to an array the stage created, never to an array it received.
C10_NoInPlaceMutation ==
    [][op' = "__call__" =>
        /\ frame' = frame
        /\ heap'[frame'] = heap[frame]
        /\ self' = self
        /\ \A w \in writes' :
              /\ w.target \notin w.received
              /\ w.target > w.base
              /\ w.target <= Len(heap')]_vars

\* a call with sharpening on a frame with a white spot on black
C10_Witness ==
    /\ op = "__call__"
    /\ status = "ok"
    /\ writes # {}
    /\ SharpenApplies(self)
    /\ \E w \in writes : w.target = locals.final_img - 1 /\ locals.grayscale \in w.received
    /\ heap[frame].a = Spot(2, 2, Black, White)

====
